---- MODULE Spec2Model ----
(***************************************************************************)
(* ava-apartment-finder: the tick loop of src/main.rs and the              *)
(* reconciliation App::compute_diff performs between the known apartments  *)
(* and a freshly fetched list of units.                                    *)
(*                                                                         *)
(* A unit id (a String in the code) is a number of 1..NumUnits; the order  *)
(* of the numbers stands for the lexicographic order of the strings, which *)
(* is the iteration order of the BTreeMap.  An Apartment keeps three of    *)
(* the fields of the struct: unit_id, bedroom and the price of lowest_rent *)
(* (rent); its equality is the derived, field-by-field one.                *)
(***************************************************************************)
EXTENDS Integers, Sequences, FiniteSets

\* ---------------------------------------------------------------- bounds
NumUnits == 2
MaxUnits == 2
MaxNow == 1
MaxLines == 5
MaxMinutes == 1500
MaxWords == 2
MaxFields == 2
MaxEvents == 2
MaxCode == 3
MaxOutput == 3
PipeCapacity == 1
NumThreads == 2

\* ------------------------------------------------------------ data model
UnitIds == 1..NumUnits
Bedrooms == {1, 2}
Rents == {3900, 4260, 4300}

\* struct Apartment (the fields kept); to keep the listings few, a
\* one-bedroom unit is only ever listed at the lowest rent
Apartment ==
    {a \in [unit_id : UnitIds, bedroom : Bedrooms, rent : Rents] :
        a.bedroom = 1 => a.rent = 3900}

\* the fields of an Apartment other than its identifier
PayloadFields == {"bedroom", "rent"}

\* a field-by-field equality that forgets the rent
apartment_eq_ignoring_rent(a, b) ==
    /\ a.unit_id = b.unit_id
    /\ a.bedroom = b.bedroom

\* #[derive(PartialEq)] on Apartment: every field is compared
apartment_eq(a, b) ==
    /\ a.unit_id = b.unit_id
    /\ a.bedroom = b.bedroom
    /\ a.rent = b.rent

\* ApartmentData.units: what one fetch can deliver
UnitLists == UNION {[1..n -> Apartment] : n \in 0..MaxUnits}

\* eyre::Result<ApartmentData> of get_apartments
get_apartments == {<<"Err">>} \cup {<<"Ok", units>> : units \in UnitLists}

\* ApartmentsDiff::default()
ApartmentsDiff_default == [added |-> <<>>, removed |-> <<>>, changed |-> <<>>]

\* ApartmentsDiff::is_empty
is_empty(diff) ==
    /\ diff.added = <<>>
    /\ diff.removed = <<>>
    /\ diff.changed = <<>>

\* ------------------------------------------------------------- BTreeMap
\* BTreeMap::default(): the map with no key
btree_default == [k \in {} |-> 0]

\* BTreeMap::remove
btree_remove(map, key) == [k \in DOMAIN map \ {key} |-> map[k]]

\* an insert that keeps the value a key has already
btree_insert_keeping(map, key, value) ==
    [k \in DOMAIN map \cup {key} |->
        IF k \in DOMAIN map THEN map[k] ELSE value]

\* BTreeMap::insert
btree_insert(map, key, value) ==
    [k \in DOMAIN map \cup {key} |-> IF k = key THEN value ELSE map[k]]

\* BTreeMap::into_iter().map(|(_, unit)| unit): the values by ascending key
RECURSIVE btree_into_iter(_)
btree_into_iter(map) ==
    IF DOMAIN map = {} THEN <<>>
    ELSE LET first == CHOOSE k \in DOMAIN map : \A j \in DOMAIN map : k <= j
         IN <<map[first]>> \o btree_into_iter(btree_remove(map, first))

\* ------------------------------------------------------ App::compute_diff
\* the loop body without `removed.remove(&unit.unit_id)`
loop_body_without_remove(st, unit) ==
    LET diff1 ==
            IF unit.unit_id \in DOMAIN st.removed
            THEN LET known_unit == st.removed[unit.unit_id]
                 IN IF ~apartment_eq(unit, known_unit)
                    THEN [st.diff EXCEPT
                            !.changed = Append(@, [old |-> known_unit, new |-> unit])]
                    ELSE st.diff
            ELSE [st.diff EXCEPT !.added = Append(@, unit)]
    IN [removed |-> st.removed,
        known_apartments |-> btree_insert(st.known_apartments, unit.unit_id, unit),
        diff |-> diff1]

\* the loop body storing the unit under its bedroom count, not its unit id
loop_body_keyed_by_bedroom(st, unit) ==
    LET diff1 ==
            IF unit.unit_id \in DOMAIN st.removed
            THEN LET known_unit == st.removed[unit.unit_id]
                 IN IF ~apartment_eq(unit, known_unit)
                    THEN [st.diff EXCEPT
                            !.changed = Append(@, [old |-> known_unit, new |-> unit])]
                    ELSE st.diff
            ELSE [st.diff EXCEPT !.added = Append(@, unit)]
    IN [removed |-> btree_remove(st.removed, unit.unit_id),
        known_apartments |-> btree_insert(st.known_apartments, unit.bedroom, unit),
        diff |-> diff1]

\* the body of `for unit in new_data.units`: st holds the locals `removed`
\* and `diff` and the field self.known_apartments
loop_body(st, unit) ==
    LET diff1 ==
            IF unit.unit_id \in DOMAIN st.removed
            THEN LET known_unit == st.removed[unit.unit_id]
                 IN IF ~apartment_eq(unit, known_unit)
                    THEN [st.diff EXCEPT
                            !.changed = Append(@, [old |-> known_unit, new |-> unit])]
                    ELSE st.diff
            ELSE [st.diff EXCEPT !.added = Append(@, unit)]
    IN [removed |-> btree_remove(st.removed, unit.unit_id),
        known_apartments |-> btree_insert(st.known_apartments, unit.unit_id, unit),
        diff |-> diff1]

\* the loop walking the list from its end
RECURSIVE for_units_reversed(_, _)
for_units_reversed(units, st) ==
    IF units = <<>> THEN st
    ELSE for_units_reversed(SubSeq(units, 1, Len(units) - 1),
                            loop_body(st, units[Len(units)]))

\* `for unit in new_data.units`, in the order of the list
RECURSIVE for_units(_, _)
for_units(units, st) ==
    IF units = <<>> THEN st
    ELSE for_units(Tail(units), loop_body(st, Head(units)))

\* compute_diff that takes the map before it looks at the fetch result
compute_diff_take_first(known, new_data) ==
    IF new_data[1] = "Err"
    THEN [known_apartments |-> btree_default, ret |-> <<"Err">>]
    ELSE LET st == for_units(new_data[2],
                     [removed |-> known,
                      known_apartments |-> btree_default,
                      diff |-> ApartmentsDiff_default])
         IN [known_apartments |-> st.known_apartments,
             ret |-> <<"Ok", [st.diff EXCEPT
                               !.removed = @ \o btree_into_iter(st.removed)]>>]

\* App::compute_diff on self.known_apartments = known, get_apartments having
\* returned new_data: the field afterwards and the value returned
compute_diff(known, new_data) ==
    IF new_data[1] = "Err"
    THEN [known_apartments |-> known, ret |-> <<"Err">>]
    ELSE LET st == for_units(new_data[2],
                     [removed |-> known,
                      known_apartments |-> btree_default,
                      diff |-> ApartmentsDiff_default])
         IN [known_apartments |-> st.known_apartments,
             ret |-> <<"Ok", [st.diff EXCEPT
                               !.removed = @ \o btree_into_iter(st.removed)]>>]

\* the tracing events App::tick emits for a diff
report(diff) ==
    IF is_empty(diff) THEN <<"No news :(">>
    ELSE <<"Data has changed!">>
         \o (IF diff.added # <<>> THEN <<"Newly listed apartments">> ELSE <<>>)
         \o (IF diff.removed # <<>> THEN <<"Unlisted apartments">> ELSE <<>>)
         \o (IF diff.changed # <<>> THEN <<"Changed apartments">> ELSE <<>>)

\* ------------------------------------------------------------ src/api.rs
\* Option<DateTime<Utc>>::None
None == <<>>

\* Option<DateTime<Utc>>::Some
Some(t) == <<t>>

\* struct ApiApartment: the payloads the tracked units are drawn from
ApiApartment == {a \in Apartment : a.bedroom = 2 /\ a.rent # 3900}

\* TryFrom<ApiApartmentData> for ApartmentData: units[i] becomes an
\* api::Apartment listed at stamps[i], the reading of Utc::now() made for it
try_from(units, stamps) ==
    [i \in DOMAIN units |->
        [inner |-> units[i], listed |-> stamps[i], unlisted |-> None]]

\* the unit ids of a list of api::Apartment (Apartment::id)
ids_of_inner(apartments) ==
    {apartments[i].inner.unit_id : i \in DOMAIN apartments}

\* api::Apartment::update_inner
update_inner(self, new_inner) == [self EXCEPT !.inner = new_inner]

\* the subtraction with its operands exchanged
tracked_duration_exchanged(self) == self.listed - self.unlisted[1]

\* Display for api::Apartment: `unlisted - self.listed` of an unlisted unit
tracked_duration(self) == self.unlisted[1] - self.listed

\* the unit stops appearing at time t: unlisted_at = now()
unlist(self, t) == [self EXCEPT !.unlisted = Some(t)]

\* ----------------------------------------------------------- src/diff.rs
\* the lines of a text, each with its "\n"; only the last line of a text
\* can lack it
Terminated == {"a\n", "b\n"}
Unterminated == {"a", "b"}

\* &str, cut into its lines as TextDiff::from_lines cuts it: the empty text
\* has no line
Texts ==
    UNION {[1..n -> Terminated] : n \in 0..MaxLines}
    \cup {Append(text, last) :
            text \in UNION {[1..n -> Terminated] : n \in 0..(MaxLines - 1)},
            last \in Unterminated}

\* the number of lines of a longest common subsequence of two texts
RECURSIVE lcs(_, _)
lcs(old, new) ==
    IF old = <<>> \/ new = <<>> THEN 0
    ELSE IF Head(old) = Head(new) THEN 1 + lcs(Tail(old), Tail(new))
    ELSE LET d == lcs(Tail(old), new)
             i == lcs(old, Tail(new))
         IN IF d >= i THEN d ELSE i

\* similar::Change: a line of one text or of both, with its 0-based indexes
Change(tag, old_index, new_index, value) ==
    [tag |-> tag, old_index |-> old_index, new_index |-> new_index,
     value |-> value]

\* the changes from line i of old and line j of new on: a shortest edit
\* script, a deletion before an insertion where both are as short
RECURSIVE changes_from(_, _, _, _)
changes_from(old, new, i, j) ==
    IF i > Len(old) /\ j > Len(new) THEN <<>>
    ELSE IF i <= Len(old) /\ j <= Len(new) /\ old[i] = new[j]
    THEN <<Change("Equal", Some(i - 1), Some(j - 1), old[i])>>
         \o changes_from(old, new, i + 1, j + 1)
    ELSE IF /\ i <= Len(old)
            /\ \/ j > Len(new)
               \/ lcs(SubSeq(old, i + 1, Len(old)), SubSeq(new, j, Len(new)))
                  >= lcs(SubSeq(old, i, Len(old)),
                         SubSeq(new, j + 1, Len(new)))
    THEN <<Change("Delete", Some(i - 1), None, old[i])>>
         \o changes_from(old, new, i + 1, j)
    ELSE <<Change("Insert", None, Some(j - 1), new[j])>>
         \o changes_from(old, new, i, j + 1)

\* a diff that does not look for common lines: every old line deleted,
\* every new line inserted
from_lines_replacing(old, new) ==
    [i \in 1..Len(old) |-> Change("Delete", Some(i - 1), None, old[i])]
    \o [j \in 1..Len(new) |-> Change("Insert", None, Some(j - 1), new[j])]

\* TextDiff::from_lines(old, new), as the changes its ops stand for
from_lines(old, new) == changes_from(old, new, 1, 1)

\* the line at position i is a change or within n lines of one
in_a_group(changes, i, n) ==
    \E j \in DOMAIN changes :
        /\ changes[j].tag # "Equal"
        /\ i - j \in (0 - n)..n

\* the groups of the positions i.. of changes, `pending` being the group
\* under way
RECURSIVE groups_from(_, _, _, _)
groups_from(changes, i, n, pending) ==
    IF i > Len(changes)
    THEN IF pending = <<>> THEN <<>> ELSE <<pending>>
    ELSE IF in_a_group(changes, i, n)
    THEN groups_from(changes, i + 1, n, Append(pending, changes[i]))
    ELSE (IF pending = <<>> THEN <<>> ELSE <<pending>>)
         \o groups_from(changes, i + 1, n, <<>>)

\* TextDiff::grouped_ops(n): the changes with n lines of context around
\* them, cut where more than 2n equal lines lie between two changes; no
\* group at all when no line changes
grouped_ops(changes, n) == groups_from(changes, 1, n, <<>>)

\* Display for Line
Line(index) == IF index = None THEN None ELSE Some(index[1] + 1)

\* Change::missing_newline
missing_newline(change) == change.value \in Unterminated

\* the match on change.tag()
sign(tag) ==
    IF tag = "Delete" THEN "-" ELSE IF tag = "Insert" THEN "+" ELSE " "

\* the line that diff writes for a change
change_line(change) ==
    [old_no |-> Line(change.old_index), new_no |-> Line(change.new_index),
     sign |-> sign(change.tag), value |-> change.value,
     newline_pushed |-> missing_newline(change)]

\* the line of 80 U+2500 that diff writes between two groups
rule_line ==
    [old_no |-> None, new_no |-> None, sign |-> "rule", value |-> "",
     newline_pushed |-> TRUE]

\* the lines written for the groups idx.. of groups
RECURSIVE write_groups(_, _)
write_groups(groups, idx) ==
    IF idx > Len(groups) THEN <<>>
    ELSE (IF idx > 1 THEN <<rule_line>> ELSE <<>>)
         \o [k \in DOMAIN groups[idx] |-> change_line(groups[idx][k])]
         \o write_groups(groups, idx + 1)

\* diff::diff: the String it returns, as its lines
diff_diff(old, new) == write_groups(grouped_ops(from_lines(old, new), 3), 1)

\* the two lines that diff_header writes before the diff
header_lines(old_path, new_path) ==
    <<[old_no |-> None, new_no |-> None, sign |-> "---", value |-> old_path,
       newline_pushed |-> TRUE],
      [old_no |-> None, new_no |-> None, sign |-> "+++", value |-> new_path,
       newline_pushed |-> TRUE]>>

\* diff::diff_header, `diff_result` being what its `diff(old, new)` gave:
\* the `?` hands an Err on, Ok(format!(..)) puts the header before the diff
diff_header(diff_result, old_path, new_path) ==
    IF diff_result[1] = "Err" THEN diff_result
    ELSE <<"Ok", header_lines(old_path, new_path) \o diff_result[2]>>

\* Result::unwrap_or_else(|err| format!("{err:?}"))
unwrap_or_else_debug(res) ==
    IF res[1] = "Ok" THEN res[2] ELSE <<"debug", res[2]>>

\* ------------------------------------------------------- src/duration.rs
MINS_PER_HOUR == 60
MINS_PER_DAY == 24 * MINS_PER_HOUR

\* i64 `/`: the quotient rounded towards zero
i64_div(a, b) == IF a >= 0 THEN a \div b ELSE 0 - ((0 - a) \div b)

\* what `write!(f, "{n} days")` and the like write
component(n, unit) == [n |-> n, unit |-> unit]

\* what `write!(f, " ")` writes
space == [n |-> 0, unit |-> " "]

\* Display for PrettyDuration with `hours != 0` for `written || hours != 0`
PrettyDuration_fmt_without_written(num_minutes) ==
    LET days == i64_div(num_minutes, MINS_PER_DAY)
        minutes_1 == num_minutes - days * MINS_PER_DAY
        hours == i64_div(minutes_1, MINS_PER_HOUR)
        minutes == minutes_1 - hours * MINS_PER_HOUR
        written_1 == days # 0
        written_2 == written_1 \/ hours # 0
    IN (IF days # 0 THEN <<component(days, "days")>> ELSE <<>>)
       \o (IF written_1 THEN <<space>> ELSE <<>>)
       \o (IF hours # 0 THEN <<component(hours, "hrs")>> ELSE <<>>)
       \o (IF written_2 THEN <<space>> ELSE <<>>)
       \o (IF written_2 \/ minutes # 0
           THEN <<component(minutes, "mins")>> ELSE <<>>)

\* Display for PrettyDuration, self.0.num_minutes() being num_minutes: what
\* it writes to f; written_1 and written_2 are `written` after the first
\* and after the third `if`
PrettyDuration_fmt(num_minutes) ==
    LET days == i64_div(num_minutes, MINS_PER_DAY)
        minutes_1 == num_minutes - days * MINS_PER_DAY
        hours == i64_div(minutes_1, MINS_PER_HOUR)
        minutes == minutes_1 - hours * MINS_PER_HOUR
        written_1 == days # 0
        written_2 == written_1 \/ hours # 0
    IN (IF days # 0 THEN <<component(days, "days")>> ELSE <<>>)
       \o (IF written_1 THEN <<space>> ELSE <<>>)
       \o (IF written_2 THEN <<component(hours, "hrs")>> ELSE <<>>)
       \o (IF written_2 THEN <<space>> ELSE <<>>)
       \o (IF written_2 \/ minutes # 0
           THEN <<component(minutes, "mins")>> ELSE <<>>)

\* the durations a caller can hand over, in whole minutes
Durations == (0 - MaxMinutes)..MaxMinutes

\* ------------------------- src/tracing_format.rs, src/trace/format.rs
\* the two formatters: tracing_format::EventFormatter with its static
\* LAST_EVENT_WAS_LONG, trace::format::EventFormatter with its field
Formatters == {"tracing_format", "trace::format"}

\* the lengths of the words of a message, and the messages: their words,
\* one space between two
WordLens == {4, 12}
Messages == UNION {[1..n -> WordLens] : n \in 0..MaxWords}

\* the fields of an event: the lengths of a name and of a value; the
\* formatters look at the lengths of the first field only, so the others are
\* all alike here
FieldLens == {[name |-> 1, value |-> 3], [name |-> 1, value |-> 30]}
FieldLists ==
    {<<>>}
    \cup {[k \in 1..n |-> IF k = 1 THEN first ELSE [name |-> 1, value |-> 3]] :
            n \in 1..MaxFields, first \in FieldLens}

\* tracing::Level of the events: main.rs logs at INFO and ERROR, which
\* have an indent of the same width
Levels == {"INFO"}

\* the EventVisitor that event.record(visitor) has filled
EventVisitors == [level : Levels, message : Messages, fields : FieldLists]

\* Options::with_termwidth().width
TermWidths == {20, 40}

\* the sum of a sequence of lengths
RECURSIVE sum_of(_)
sum_of(lens) == IF lens = <<>> THEN 0 ELSE Head(lens) + sum_of(Tail(lens))

\* String::len of a text of these words
text_len(words) ==
    IF words = <<>> THEN 0 ELSE sum_of(words) + Len(words) - 1

\* the words of `Utc::now().format("%c")`, as in "Fri Nov  6 10:00:00 2026"
date_words == <<3, 4, 1, 8, 4>>

\* the length of the first-line indent of a level: "DEBUG " or the bullet
\* and a space
indent_len(level) == IF level = "DEBUG" THEN 6 ELSE 2

\* the number of lines textwrap::wrap gives for the words still to place,
\* the line under way being `used` wide: a word goes to the next line, which
\* starts with the 2 of subsequent_indent, when it does not fit with its
\* space, and no word is broken
RECURSIVE wrap_from(_, _, _)
wrap_from(words, used, width) ==
    IF words = <<>> THEN 1
    ELSE IF used + 1 + Head(words) <= width
    THEN wrap_from(Tail(words), used + 1 + Head(words), width)
    ELSE 1 + wrap_from(Tail(words), 2 + Head(words), width)

\* options.wrap(text).len(): the text with no word is one empty line
wrap(words, indent, width) ==
    IF words = <<>> THEN 1
    ELSE wrap_from(Tail(words), indent + Head(words), width)

\* usize `a - b`: with overflow checks a difference below zero panics,
\* without them it wraps to 2^64 less the deficit
usize_sub(a, b, overflow_checks) ==
    IF a >= b THEN <<"Ok", a - b>>
    ELSE IF overflow_checks THEN <<"panic">>
    ELSE <<"wrapped", b - a>>

\* `lhs < difference` for a difference that usize_sub gave and did not panic:
\* 2^64 less a deficit is above every length of this model
usize_lt(lhs, difference) ==
    IF difference[1] = "Ok" THEN lhs < difference[2] ELSE TRUE

\* the left side of the `<` of the short-format test: fields[0].1.len() in
\* tracing_format.rs, the name, the value and 2 in trace/format.rs
short_format_lhs(formatter, field) ==
    IF formatter = "tracing_format" THEN field.value
    ELSE field.name + field.value + 2

\* `short_format`: <<"panic">>, or <<"Ok", b>>; the `&&` does not subtract
\* for an event that has not exactly one field
use_short_format(formatter, visitor, term_width, overflow_checks) ==
    IF Len(visitor.fields) # 1 THEN <<"Ok", FALSE>>
    ELSE LET difference == usize_sub(term_width, text_len(visitor.message),
                                     overflow_checks)
         IN IF difference[1] = "panic" THEN <<"panic">>
            ELSE <<"Ok", usize_lt(short_format_lhs(formatter,
                                                   visitor.fields[1]),
                                  difference)>>

\* the words that are wrapped: the date before the message in
\* trace/format.rs, " name=value" after it in short format
wrapped_words(formatter, visitor, short_format) ==
    (IF formatter = "trace::format" THEN date_words ELSE <<>>)
    \o visitor.message
    \o (IF short_format
        THEN <<visitor.fields[1].name + 1 + visitor.fields[1].value>>
        ELSE <<>>)

\* n times the line `what`
lines_of(n, what) == [k \in 1..n |-> what]

\* Display for EventVisitor that writes the blank line before every long
\* event
EventVisitor_fmt_always_leading(formatter, visitor, term_width, flag, overflow_checks) ==
    LET short_format == use_short_format(formatter, visitor, term_width,
                                         overflow_checks)
    IN IF short_format[1] = "panic"
       THEN [panicked |-> TRUE, short_format |-> FALSE, lines |-> 0,
             add_blank_lines |-> FALSE, leading |-> FALSE,
             written |-> <<>>, flag |-> flag]
       ELSE LET lines == wrap(wrapped_words(formatter, visitor,
                                            short_format[2]),
                              indent_len(visitor.level), term_width)
                add_blank_lines == lines > 1
                leading == add_blank_lines
            IN [panicked |-> FALSE, short_format |-> short_format[2],
                lines |-> lines, add_blank_lines |-> add_blank_lines, leading |-> leading,
                written |->
                    (IF leading THEN <<"blank">> ELSE <<>>)
                    \o lines_of(lines, "line")
                    \o (IF short_format[2] THEN <<>>
                        ELSE lines_of(Len(visitor.fields), "field"))
                    \o (IF add_blank_lines THEN <<"blank">> ELSE <<>>),
                flag |-> add_blank_lines]

\* Display for EventVisitor, `flag` being the AtomicBool it swaps: whether
\* it panicked, its short_format, lines.len() and add_blank_lines, whether
\* it wrote the blank line before the message, the lines it wrote, the
\* AtomicBool after
EventVisitor_fmt(formatter, visitor, term_width, flag, overflow_checks) ==
    LET short_format == use_short_format(formatter, visitor, term_width,
                                         overflow_checks)
    IN IF short_format[1] = "panic"
       THEN [panicked |-> TRUE, short_format |-> FALSE, lines |-> 0,
             add_blank_lines |-> FALSE, leading |-> FALSE,
             written |-> <<>>, flag |-> flag]
       ELSE LET lines == wrap(wrapped_words(formatter, visitor,
                                            short_format[2]),
                              indent_len(visitor.level), term_width)
                add_blank_lines == lines > 1
                last_event_was_long == flag
                leading == add_blank_lines /\ ~last_event_was_long
            IN [panicked |-> FALSE, short_format |-> short_format[2],
                lines |-> lines, add_blank_lines |-> add_blank_lines, leading |-> leading,
                written |->
                    (IF leading THEN <<"blank">> ELSE <<>>)
                    \o lines_of(lines, "line")
                    \o (IF short_format[2] THEN <<>>
                        ELSE lines_of(Len(visitor.fields), "field"))
                    \o (IF add_blank_lines THEN <<"blank">> ELSE <<>>),
                flag |-> add_blank_lines]

\* ------------------------------------------------------------ ava_db.json
\* an App that an earlier run of the format has left in DATA_PATH
SavedApps == {[k \in {1} |-> [unit_id |-> 1, bedroom |-> 2, rent |-> 4260]]}

\* DATA_PATH as main finds it: no file, a file that cannot be read or
\* parsed, or a file holding an App
DbFiles ==
    {<<"absent">>, <<"corrupt">>} \cup {<<"app", app>> : app \in SavedApps}

\* ------------------------------------------------------------------ state
VARIABLES
    known_apartments,   \* App.known_apartments
    pc,                 \* where main is: "start" (before the load), "fetch"
                        \* or "sleep" (the await it is suspended at), "exit"
    now,                \* the time, in sleeps of the loop of main
    prior,              \* known_apartments when the current tick started
    new_data,           \* what get_apartments returned to the current tick
    result,             \* what compute_diff returned to the current tick
    logged,             \* the tracing events of the current tick
    ava_db,             \* the file at DATA_PATH
    phases,             \* the phases the current cycle has entered, in order
    running,            \* the calls of App::tick that have not returned
    tracked,            \* the api::Apartment records, by unit id
    diff_old,           \* the `old` of a call of diff::diff
    diff_new,           \* the `new` of a call of diff::diff
    diff_ret,           \* what the call has returned
    fmt_ret,            \* what Display::fmt of the ChangedApartment returned
    dur_minutes,        \* the num_minutes() of a PrettyDuration
    dur_ret,            \* what its Display has written
    frame,              \* the locals of compute_diff once the map is taken
    formatter,          \* the EventFormatter that is installed
    overflow_checks,    \* whether the build checks integer overflow
    last_event_was_long, \* LAST_EVENT_WAS_LONG, or the field of that name
    writer,             \* the lines the formatter has written
    formatted,          \* what each call of format_event did, in order
    code_left,          \* the bytes of `code` the writer thread has yet to write
    stdin_pipe,         \* the bytes in the pipe to the stdin of node
    stdin_closed,       \* the ChildStdin has been dropped
    child,              \* what node does: "reading", "writing", "exited"
    out_left,           \* the bytes node has yet to write to its stdout
    stdout_pipe,        \* the bytes in the pipe from the stdout of node
    parent,             \* where js_eval is
    thread,             \* the writer thread: "writing", or what it returned
    output,             \* the bytes of output.stdout read so far
    js_ret,             \* what js_eval returned
    calls               \* the calls of format_event that threads are in

vars == <<known_apartments, pc, now, prior, new_data, result, logged,
          ava_db, phases, running, tracked, diff_old, diff_new, diff_ret,
          fmt_ret, dur_minutes, dur_ret, frame, formatter, overflow_checks,
          last_event_was_long, writer, formatted, code_left, stdin_pipe,
          stdin_closed, child, out_left, stdout_pipe, parent, thread, output,
          js_ret, calls>>

\* a call of diff::diff, and of the Display that made it
diff_vars == <<diff_old, diff_new, diff_ret, fmt_ret>>

\* a PrettyDuration being displayed
dur_vars == <<dur_minutes, dur_ret>>

\* compute_diff run statement by statement
steps_vars == <<frame>>

\* the log formatter
log_vars ==
    <<formatter, overflow_checks, last_event_was_long, writer, formatted>>

\* a call of node::js_eval
node_vars ==
    <<code_left, stdin_pipe, stdin_closed, child, out_left, stdout_pipe,
      parent, thread, output, js_ret>>

\* the calls of format_event of several threads
calls_vars == <<calls>>

\* what the ticks of main, taken whole, and the tracked units leave alone
lib_vars ==
    <<diff_vars, dur_vars, steps_vars, log_vars, node_vars, calls_vars>>

\* no thread is in format_event
calls_idle == calls = <<>>

\* js_eval is not called
node_idle ==
    /\ code_left = 0
    /\ stdin_pipe = 0
    /\ stdin_closed = FALSE
    /\ child = "none"
    /\ out_left = 0
    /\ stdout_pipe = 0
    /\ parent = "idle"
    /\ thread = "none"
    /\ output = 0
    /\ js_ret = <<"None">>

\* no event has been formatted: AtomicBool::new(false), AtomicBool::default()
log_idle ==
    /\ formatter = "tracing_format"
    /\ overflow_checks = FALSE
    /\ last_event_was_long = FALSE
    /\ writer = <<>>
    /\ formatted = <<>>

\* compute_diff is not run statement by statement
steps_idle == frame = <<"None">>

\* no PrettyDuration is displayed
dur_idle == dur_minutes = 0 /\ dur_ret = <<"None">>

\* struct App: its fields
App == [known_apartments |-> known_apartments]

\* the process starts: main has not yet looked at DATA_PATH
Init ==
    /\ known_apartments = btree_default
    /\ pc = "start"
    /\ now = 0
    /\ prior = btree_default
    /\ new_data = <<"None">>
    /\ result = <<"None">>
    /\ logged = <<>>
    /\ ava_db \in DbFiles
    /\ phases = <<"Idle">>
    /\ running = 0
    /\ tracked = btree_default
    /\ diff_old = <<>>
    /\ diff_new = <<>>
    /\ diff_ret = <<"None">>
    /\ fmt_ret = <<"None">>
    /\ dur_idle
    /\ steps_idle
    /\ log_idle
    /\ node_idle
    /\ calls_idle

\* main that falls back to App::default() when DATA_PATH cannot be read
start_default_on_corrupt ==
    /\ pc = "start"
    /\ known_apartments' =
         IF ava_db[1] = "app" THEN ava_db[2] ELSE btree_default
    /\ prior' = known_apartments'
    /\ pc' = "fetch"
    /\ phases' = <<"Idle", "Fetching">>
    /\ running' = running + 1
    /\ UNCHANGED <<now, new_data, result, logged, ava_db, tracked, lib_vars>>

\* main up to the first await of the first tick: the App is read from
\* DATA_PATH if it exists, else App::default(); an unreadable file ends main
\* with the error; otherwise app.tick() calls compute_diff, which awaits
\* get_apartments
start ==
    /\ pc = "start"
    /\ IF ava_db[1] = "corrupt"
       THEN /\ pc' = "exit"
            /\ UNCHANGED <<known_apartments, prior, phases, running>>
       ELSE /\ known_apartments' =
                 IF ava_db[1] = "app" THEN ava_db[2] ELSE btree_default
            /\ prior' = known_apartments'
            /\ pc' = "fetch"
            /\ phases' = <<"Idle", "Fetching">>
            /\ running' = running + 1
    /\ UNCHANGED <<now, new_data, result, logged, ava_db, tracked, lib_vars>>

\* the loop of main with `app.tick().await?`: an error of tick ends main
tick_propagating_error ==
    /\ pc = "fetch"
    /\ \E fetched \in get_apartments :
         LET after == compute_diff(known_apartments, fetched)
         IN /\ prior' = known_apartments
            /\ new_data' = fetched
            /\ known_apartments' = after.known_apartments
            /\ result' = after.ret
            /\ logged' = IF after.ret[1] = "Err" THEN <<"error">>
                         ELSE report(after.ret[2])
            /\ phases' = phases
                         \o (IF after.ret[1] = "Err" THEN <<>>
                             ELSE <<"Reconciling", "Reporting">>)
                         \o <<"Idle">>
            /\ pc' = IF after.ret[1] = "Err" THEN "exit" ELSE "sleep"
            /\ now' = now
    /\ running' = running - 1
    /\ ava_db' = ava_db
    /\ tracked' = tracked
    /\ UNCHANGED lib_vars

\* get_apartments returns some `fetched`: the rest of compute_diff, the rest
\* of tick, the match of main on its result, up to the sleep
tick ==
    /\ pc = "fetch"
    /\ \E fetched \in get_apartments :
         LET after == compute_diff(known_apartments, fetched)
         IN /\ prior' = known_apartments
            /\ new_data' = fetched
            /\ known_apartments' = after.known_apartments
            /\ result' = after.ret
            /\ logged' = IF after.ret[1] = "Err" THEN <<"error">>
                         ELSE report(after.ret[2])
            /\ phases' = phases
                         \o (IF after.ret[1] = "Err" THEN <<>>
                             ELSE <<"Reconciling", "Reporting">>)
                         \o <<"Idle">>
            /\ pc' = "sleep"
            /\ now' = now
    /\ running' = running - 1
    /\ ava_db' = ava_db
    /\ tracked' = tracked
    /\ UNCHANGED lib_vars

\* the loop of main spawning app.tick() as a task and sleeping on
sleep_spawning_tick ==
    /\ pc = "sleep"
    /\ now < MaxNow
    /\ now' = now + 1
    /\ running' = running + 1
    /\ UNCHANGED <<known_apartments, pc, prior, new_data, result, logged,
                   ava_db, phases, tracked, lib_vars>>

\* the sleep of main is over: the next pass of the loop calls app.tick(),
\* whose locals are fresh
sleep ==
    /\ pc = "sleep"
    /\ now < MaxNow
    /\ now' = now + 1
    /\ pc' = "fetch"
    /\ prior' = known_apartments
    /\ new_data' = <<"None">>
    /\ result' = <<"None">>
    /\ logged' = <<>>
    /\ known_apartments' = known_apartments
    /\ phases' = <<"Idle", "Fetching">>
    /\ running' = running + 1
    /\ ava_db' = ava_db
    /\ tracked' = tracked
    /\ UNCHANGED lib_vars

Next ==
    \/ start
    \/ tick
    \/ sleep

Spec == Init /\ [][Next]_vars

\* ------------------------------------------- the life of the tracked units
\* what main.rs keeps of the process while the tracked units live
main_vars ==
    <<known_apartments, pc, prior, new_data, result, logged, ava_db,
      phases, running>>

\* the tracked units that are listed still
active == {id \in DOMAIN tracked : tracked[id].unlisted = None}

\* the lists of payloads of distinct unit ids, none of them tracked yet
NewUnitLists ==
    {units \in UNION {[1..n -> ApiApartment] : n \in 1..MaxUnits} :
        /\ \A i \in DOMAIN units : units[i].unit_id \notin DOMAIN tracked
        /\ \A i, j \in DOMAIN units :
             units[i].unit_id = units[j].unit_id => i = j}

\* the readings Utc::now() can give to a loop of n passes that starts now
Readings(n) ==
    {stamps \in [1..n -> now..MaxNow] :
        \A i, j \in 1..n : i < j => stamps[i] <= stamps[j]}

\* no tracked unit yet, the clock at 0
InitApi ==
    /\ known_apartments = btree_default
    /\ pc = "start"
    /\ now = 0
    /\ prior = btree_default
    /\ new_data = <<"None">>
    /\ result = <<"None">>
    /\ logged = <<>>
    /\ ava_db = <<"absent">>
    /\ phases = <<"Idle">>
    /\ running = 0
    /\ tracked = btree_default
    /\ diff_old = <<>>
    /\ diff_new = <<>>
    /\ diff_ret = <<"None">>
    /\ fmt_ret = <<"None">>
    /\ dur_idle
    /\ steps_idle
    /\ log_idle
    /\ node_idle
    /\ calls_idle

\* unit ids appear for the first time: try_from makes their records, which
\* enter the store as they are
api_listed ==
    \E units \in NewUnitLists :
        \E stamps \in Readings(Len(units)) :
            LET apartments == try_from(units, stamps)
            IN /\ tracked' =
                    [id \in DOMAIN tracked \cup ids_of_inner(apartments) |->
                        IF id \in DOMAIN tracked THEN tracked[id]
                        ELSE LET i == CHOOSE i \in DOMAIN apartments :
                                        apartments[i].inner.unit_id = id
                             IN apartments[i]]
               /\ now' = stamps[Len(stamps)]
               /\ UNCHANGED <<main_vars, lib_vars>>

\* a listed unit is fetched with another payload: update_inner
api_changed ==
    \E id \in active :
        \E new_inner \in ApiApartment :
            /\ new_inner.unit_id = id
            /\ new_inner # tracked[id].inner
            /\ tracked' = [tracked EXCEPT ![id] = update_inner(@, new_inner)]
            /\ UNCHANGED <<now, main_vars, lib_vars>>

\* a listed unit is no longer fetched: it is unlisted now
api_unlisted ==
    \E id \in active :
        /\ tracked' = [tracked EXCEPT ![id] = unlist(@, now)]
        /\ UNCHANGED <<now, main_vars, lib_vars>>

\* time passes
api_clock ==
    /\ now < MaxNow
    /\ now' = now + 1
    /\ UNCHANGED <<tracked, main_vars, lib_vars>>

NextApi ==
    \/ api_listed
    \/ api_changed
    \/ api_unlisted
    \/ api_clock

SpecApi == InitApi /\ [][NextApi]_vars

\* ------------------------------------------------------ a call of diff
\* what a call of diff::diff leaves alone
not_diff_vars == <<now, tracked, main_vars, dur_vars, steps_vars, log_vars,
      node_vars, calls_vars>>

\* a caller is about to call diff::diff on two texts
InitDiff ==
    /\ known_apartments = btree_default
    /\ pc = "start"
    /\ now = 0
    /\ prior = btree_default
    /\ new_data = <<"None">>
    /\ result = <<"None">>
    /\ logged = <<>>
    /\ ava_db = <<"absent">>
    /\ phases = <<"Idle">>
    /\ running = 0
    /\ tracked = btree_default
    /\ diff_old \in Texts
    /\ diff_new \in Texts
    /\ diff_ret = <<"None">>
    /\ fmt_ret = <<"None">>
    /\ dur_idle
    /\ steps_idle
    /\ log_idle
    /\ node_idle
    /\ calls_idle

\* the call returns: no write! into a String fails
diff_call ==
    /\ diff_ret = <<"None">>
    /\ diff_ret' = <<"Ok", diff_diff(diff_old, diff_new)>>
    /\ UNCHANGED <<diff_old, diff_new, fmt_ret, not_diff_vars>>

\* the call returns through the `?` of a write! that gave fmt::Error
diff_call_failing ==
    /\ diff_ret = <<"None">>
    /\ diff_ret' = <<"Err", "fmt::Error">>
    /\ UNCHANGED <<diff_old, diff_new, fmt_ret, not_diff_vars>>

\* Display for ChangedApartment with `.map_err(|_| fmt::Error)?` on the
\* result of diff_header
ChangedApartment_fmt_propagating ==
    /\ diff_ret # <<"None">>
    /\ fmt_ret = <<"None">>
    /\ \E f_fails \in BOOLEAN :
         LET rendered == diff_header(diff_ret, "old", "new")
         IN fmt_ret' =
                IF rendered[1] = "Err" THEN <<"Err", "diff_header">>
                ELSE IF f_fails THEN <<"Err", "f">>
                ELSE <<"Ok", rendered[2]>>
    /\ UNCHANGED <<diff_old, diff_new, diff_ret, not_diff_vars>>

\* Display for ChangedApartment, the diff of its two units returned: what
\* diff_header gives, or the Debug of its error, is written to f; the
\* fmt::Error of a formatter f that fails is returned, marked "f" here
ChangedApartment_fmt ==
    /\ diff_ret # <<"None">>
    /\ fmt_ret = <<"None">>
    /\ \E f_fails \in BOOLEAN :
         LET rendered == diff_header(diff_ret, "old", "new")
         IN fmt_ret' =
                IF f_fails THEN <<"Err", "f">>
                ELSE <<"Ok", unwrap_or_else_debug(rendered)>>
    /\ UNCHANGED <<diff_old, diff_new, diff_ret, not_diff_vars>>

NextDiff ==
    \/ diff_call
    \/ diff_call_failing
    \/ ChangedApartment_fmt

SpecDiff == InitDiff /\ [][NextDiff]_vars

\* ------------------------------------------- a PrettyDuration displayed
\* main has not started, nothing is tracked
idle ==
    /\ known_apartments = btree_default
    /\ pc = "start"
    /\ now = 0
    /\ prior = btree_default
    /\ new_data = <<"None">>
    /\ result = <<"None">>
    /\ logged = <<>>
    /\ ava_db = <<"absent">>
    /\ phases = <<"Idle">>
    /\ running = 0
    /\ tracked = btree_default

\* no diff is called for
diff_idle ==
    /\ diff_old = <<>>
    /\ diff_new = <<>>
    /\ diff_ret = <<"None">>
    /\ fmt_ret = <<"None">>

\* what the Display of a PrettyDuration leaves alone
not_dur_vars == <<now, tracked, main_vars, diff_vars, steps_vars, log_vars,
      node_vars, calls_vars>>

\* a caller is about to display a PrettyDuration
InitDuration ==
    /\ idle
    /\ diff_idle
    /\ dur_minutes \in Durations
    /\ dur_ret = <<"None">>
    /\ steps_idle
    /\ log_idle
    /\ node_idle
    /\ calls_idle

\* to_string() of the PrettyDuration: the formatter is a String
PrettyDuration_to_string ==
    /\ dur_ret = <<"None">>
    /\ dur_ret' = <<"Ok", PrettyDuration_fmt(dur_minutes)>>
    /\ UNCHANGED <<dur_minutes, not_dur_vars>>

NextDuration == PrettyDuration_to_string

SpecDuration == InitDuration /\ [][NextDuration]_vars

\* -------------------------------- compute_diff, statement by statement
\* the stores a tick can find: units under their ids
Stores ==
    UNION {{store \in [ids -> ApiApartment] :
                \A id \in ids : store[id].unit_id = id} :
           ids \in SUBSET UnitIds}

\* what get_apartments can return to the tick that is followed
get_api_apartments ==
    {<<"Err">>}
    \cup {<<"Ok", units>> :
            units \in UNION {[1..n -> ApiApartment] : n \in 0..MaxUnits}}

\* the values of pc at which an `.await` of compute_diff, of tick or of the
\* loop of main suspends the task, with one more `.await` in the body of
\* the `for` loop
suspension_points_in_loop == {"fetch", "loop", "sleep"}

\* the values of pc at which an `.await` of compute_diff, of tick or of the
\* loop of main suspends the task: that of get_apartments and the sleep
suspension_points == {"fetch", "sleep"}

\* what compute_diff, statement by statement, leaves alone
not_steps_vars == <<now, ava_db, tracked, diff_vars, dur_vars, log_vars,
      node_vars, calls_vars>>

\* a tick has called compute_diff, which awaits get_apartments
InitSteps ==
    /\ known_apartments \in Stores
    /\ pc = "fetch"
    /\ now = 0
    /\ prior = known_apartments
    /\ new_data = <<"None">>
    /\ result = <<"None">>
    /\ logged = <<>>
    /\ ava_db = <<"absent">>
    /\ phases = <<"Idle", "Fetching">>
    /\ running = 1
    /\ tracked = btree_default
    /\ diff_idle
    /\ dur_idle
    /\ steps_idle
    /\ log_idle
    /\ node_idle
    /\ calls_idle

\* get_apartments().await gives Err: compute_diff and tick return it through
\* their `?`, main logs it and sleeps
steps_fetch_failed ==
    /\ pc = "fetch"
    /\ new_data' = <<"Err">>
    /\ result' = <<"Err">>
    /\ logged' = <<"error">>
    /\ phases' = phases \o <<"Idle">>
    /\ running' = running - 1
    /\ pc' = "sleep"
    /\ UNCHANGED <<known_apartments, prior, frame, not_steps_vars>>

\* get_apartments().await gives Ok(new_data)
steps_fetched ==
    /\ pc = "fetch"
    /\ \E fetched \in get_api_apartments :
         /\ fetched[1] = "Ok"
         /\ new_data' = fetched
    /\ pc' = "take"
    /\ UNCHANGED <<known_apartments, prior, result, logged, phases, running,
                   frame, not_steps_vars>>

\* `let mut diff = ApartmentsDiff::default()` and
\* `let mut removed = std::mem::take(&mut self.known_apartments)`
steps_take ==
    /\ pc = "take"
    /\ frame' = <<"Some", [removed |-> known_apartments,
                           diff |-> ApartmentsDiff_default,
                           units |-> new_data[2]]>>
    /\ known_apartments' = btree_default
    /\ pc' = "loop"
    /\ UNCHANGED <<prior, new_data, result, logged, phases, running,
                   not_steps_vars>>

\* one pass of `for unit in new_data.units`
steps_loop ==
    /\ pc = "loop"
    /\ frame[2].units # <<>>
    /\ LET st == loop_body([removed |-> frame[2].removed,
                            known_apartments |-> known_apartments,
                            diff |-> frame[2].diff],
                           Head(frame[2].units))
       IN /\ frame' = <<"Some", [removed |-> st.removed,
                                 diff |-> st.diff,
                                 units |-> Tail(frame[2].units)]>>
          /\ known_apartments' = st.known_apartments
    /\ UNCHANGED <<pc, prior, new_data, result, logged, phases, running,
                   not_steps_vars>>

\* the loop is over: diff.removed.extend(..), Ok(diff), the rest of tick,
\* and main sleeps
steps_return ==
    /\ pc = "loop"
    /\ frame[2].units = <<>>
    /\ LET diff == [frame[2].diff EXCEPT
                        !.removed = @ \o btree_into_iter(frame[2].removed)]
       IN /\ result' = <<"Ok", diff>>
          /\ logged' = report(diff)
    /\ phases' = phases \o <<"Reconciling", "Reporting", "Idle">>
    /\ running' = running - 1
    /\ frame' = <<"None">>
    /\ pc' = "sleep"
    /\ UNCHANGED <<known_apartments, prior, new_data, not_steps_vars>>

NextSteps ==
    \/ steps_fetch_failed
    \/ steps_fetched
    \/ steps_take
    \/ steps_loop
    \/ steps_return

SpecSteps == InitSteps /\ [][NextSteps]_vars

\* ----------------------------------- events formatted one after another
\* what the log formatter leaves alone
not_log_vars ==
    <<now, tracked, main_vars, diff_vars, dur_vars, steps_vars, node_vars,
      calls_vars>>

\* a formatter is installed and has formatted nothing
InitLog ==
    /\ idle
    /\ diff_idle
    /\ dur_idle
    /\ steps_idle
    /\ formatter \in Formatters
    /\ overflow_checks \in BOOLEAN
    /\ last_event_was_long = FALSE
    /\ writer = <<>>
    /\ formatted = <<>>
    /\ node_idle
    /\ calls_idle

\* a call of format_event has panicked: the thread that logs unwinds
log_panicked ==
    formatted # <<>> /\ formatted[Len(formatted)].panicked

\* format_event, from its first line to its last, no other call under way:
\* in tracing_format.rs the Display swaps the static; in trace/format.rs the
\* field is loaded into the AtomicBool of the visitor, the Display swaps
\* that, and its value is stored back
format_event ==
    /\ Len(formatted) < MaxEvents
    /\ ~log_panicked
    /\ \E visitor \in EventVisitors, term_width \in TermWidths :
         LET done == EventVisitor_fmt(formatter, visitor, term_width,
                                      last_event_was_long, overflow_checks)
         IN /\ writer' = writer \o done.written
            /\ last_event_was_long' = done.flag
            /\ formatted' = Append(formatted,
                    [fields |-> Len(visitor.fields),
                     message_fits |->
                        text_len(visitor.message) <= term_width,
                     panicked |-> done.panicked,
                     short_format |-> done.short_format,
                     lines |-> done.lines,
                     add_blank_lines |-> done.add_blank_lines,
                     leading |-> done.leading])
    /\ UNCHANGED <<formatter, overflow_checks, not_log_vars>>

NextLog == format_event

SpecLog == InitLog /\ [][NextLog]_vars

\* ------------------------------------------------------- node::js_eval
\* what a call of js_eval leaves alone
not_node_vars ==
    <<now, tracked, main_vars, diff_vars, dur_vars, steps_vars, log_vars,
      calls_vars>>

\* js_eval is called with some code; node, once it runs, will have some
\* output to write
InitNode ==
    /\ idle
    /\ diff_idle
    /\ dur_idle
    /\ steps_idle
    /\ log_idle
    /\ code_left \in 0..MaxCode
    /\ stdin_pipe = 0
    /\ stdin_closed = FALSE
    /\ child = "none"
    /\ out_left \in 0..MaxOutput
    /\ stdout_pipe = 0
    /\ parent = "spawn"
    /\ thread = "none"
    /\ output = 0
    /\ js_ret = <<"None">>
    /\ calls_idle

\* Command::spawn fails: js_eval returns the error
spawn_fails ==
    /\ parent = "spawn"
    /\ parent' = "returned"
    /\ js_ret' = <<"Err", "Failed to execute node">>
    /\ UNCHANGED <<code_left, stdin_pipe, stdin_closed, child, out_left,
                   stdout_pipe, thread, output, not_node_vars>>

\* Command::spawn, child.stdin.take(), thread::spawn: node and the thread
\* run, js_eval goes into wait_with_output, which reads the stdout
spawn ==
    /\ parent = "spawn"
    /\ child' = "reading"
    /\ thread' = "writing"
    /\ parent' = "reading"
    /\ UNCHANGED <<code_left, stdin_pipe, stdin_closed, out_left, stdout_pipe,
                   output, js_ret, not_node_vars>>

\* write_all, a byte at a time: it waits while the pipe is full
thread_write ==
    /\ thread = "writing"
    /\ code_left > 0
    /\ stdin_pipe < PipeCapacity
    /\ code_left' = code_left - 1
    /\ stdin_pipe' = stdin_pipe + 1
    /\ UNCHANGED <<stdin_closed, child, out_left, stdout_pipe, parent, thread,
                   output, js_ret, not_node_vars>>

\* write_all gives an io::Error: the closure returns it, dropping the stdin
thread_write_fails ==
    /\ thread = "writing"
    /\ code_left > 0
    /\ thread' = "Err"
    /\ stdin_closed' = TRUE
    /\ UNCHANGED <<code_left, stdin_pipe, child, out_left, stdout_pipe,
                   parent, output, js_ret, not_node_vars>>

\* the thread, the code written, returns without dropping the ChildStdin
thread_done_keeping_stdin ==
    /\ thread = "writing"
    /\ code_left = 0
    /\ thread' = "Ok"
    /\ UNCHANGED <<code_left, stdin_pipe, stdin_closed, child, out_left,
                   stdout_pipe, parent, output, js_ret, not_node_vars>>

\* write_all is over: the closure returns Ok, dropping the stdin it owns
thread_done ==
    /\ thread = "writing"
    /\ code_left = 0
    /\ thread' = "Ok"
    /\ stdin_closed' = TRUE
    /\ UNCHANGED <<code_left, stdin_pipe, child, out_left, stdout_pipe,
                   parent, output, js_ret, not_node_vars>>

\* node reads a byte of its stdin
child_read ==
    /\ child = "reading"
    /\ stdin_pipe > 0
    /\ stdin_pipe' = stdin_pipe - 1
    /\ UNCHANGED <<code_left, stdin_closed, child, out_left, stdout_pipe,
                   parent, thread, output, js_ret, not_node_vars>>

\* node reads the end of its stdin: it runs the script
child_eof ==
    /\ child = "reading"
    /\ stdin_pipe = 0
    /\ stdin_closed
    /\ child' = "writing"
    /\ UNCHANGED <<code_left, stdin_pipe, stdin_closed, out_left, stdout_pipe,
                   parent, thread, output, js_ret, not_node_vars>>

\* node writes a byte to its stdout: it waits while the pipe is full
child_write ==
    /\ child = "writing"
    /\ out_left > 0
    /\ stdout_pipe < PipeCapacity
    /\ out_left' = out_left - 1
    /\ stdout_pipe' = stdout_pipe + 1
    /\ UNCHANGED <<code_left, stdin_pipe, stdin_closed, child, parent, thread,
                   output, js_ret, not_node_vars>>

\* node has written its output: it exits, which closes its stdout
child_exit ==
    /\ child = "writing"
    /\ out_left = 0
    /\ child' = "exited"
    /\ UNCHANGED <<code_left, stdin_pipe, stdin_closed, out_left, stdout_pipe,
                   parent, thread, output, js_ret, not_node_vars>>

\* wait_with_output reads a byte of the stdout
parent_read ==
    /\ parent = "reading"
    /\ stdout_pipe > 0
    /\ stdout_pipe' = stdout_pipe - 1
    /\ output' = output + 1
    /\ UNCHANGED <<code_left, stdin_pipe, stdin_closed, child, out_left,
                   parent, thread, js_ret, not_node_vars>>

\* wait_with_output reads the end of the stdout and waits for node, which
\* has exited; then js_eval joins the thread
parent_wait ==
    /\ parent = "reading"
    /\ stdout_pipe = 0
    /\ child = "exited"
    /\ parent' = "joining"
    /\ UNCHANGED <<code_left, stdin_pipe, stdin_closed, child, out_left,
                   stdout_pipe, thread, output, js_ret, not_node_vars>>

\* wait_with_output gives an io::Error: js_eval returns it
parent_wait_fails ==
    /\ parent = "reading"
    /\ stdout_pipe = 0
    /\ child = "exited"
    /\ parent' = "returned"
    /\ js_ret' = <<"Err", "failed to wait on child">>
    /\ UNCHANGED <<code_left, stdin_pipe, stdin_closed, child, out_left,
                   stdout_pipe, thread, output, not_node_vars>>

\* thread.join() returns what the closure returned: js_eval returns the
\* error of the thread, or the output
parent_join ==
    /\ parent = "joining"
    /\ thread \in {"Ok", "Err"}
    /\ parent' = "returned"
    /\ js_ret' = IF thread = "Ok" THEN <<"Ok", output>>
                 ELSE <<"Err", "Failed to join node-stdin-writer thread">>
    /\ UNCHANGED <<code_left, stdin_pipe, stdin_closed, child, out_left,
                   stdout_pipe, thread, output, not_node_vars>>

\* the steps of the writer thread, of node and of js_eval
thread_step == thread_write \/ thread_write_fails \/ thread_done
child_step == child_read \/ child_eof \/ child_write \/ child_exit
parent_step ==
    spawn_fails \/ spawn \/ parent_read \/ parent_wait \/ parent_wait_fails
    \/ parent_join

NextNode ==
    \/ spawn_fails
    \/ spawn
    \/ thread_write
    \/ thread_write_fails
    \/ thread_done
    \/ child_read
    \/ child_eof
    \/ child_write
    \/ child_exit
    \/ parent_read
    \/ parent_wait
    \/ parent_wait_fails
    \/ parent_join

SpecNode == InitNode /\ [][NextNode]_vars

\* the thread, node and js_eval each go on when they can
SpecNodeFair ==
    /\ SpecNode
    /\ WF_vars(thread_step)
    /\ WF_vars(child_step)
    /\ WF_vars(parent_step)

\* ------------------------------- format_event called by several threads
\* the threads that log
Threads == 1..NumThreads

\* what the calls of format_event leave alone
not_calls_vars ==
    <<now, tracked, main_vars, diff_vars, dur_vars, steps_vars, writer,
      formatted, node_vars>>

\* every thread is about to call format_event on the one formatter, which
\* has formatted nothing yet
InitCalls ==
    /\ idle
    /\ diff_idle
    /\ dur_idle
    /\ steps_idle
    /\ node_idle
    /\ formatter \in Formatters
    /\ overflow_checks \in BOOLEAN
    /\ last_event_was_long = FALSE
    /\ writer = <<>>
    /\ formatted = <<>>
    /\ calls = [t \in Threads |->
                    [pc |-> "new", copy |-> FALSE, add_blank_lines |-> FALSE,
                     leading |-> FALSE]]

\* trace::format: EventVisitor::new(level, AtomicBool::new(
\* self.last_event_was_long.load(SeqCst))): the visitor of thread t gets a
\* copy of the flag
call_new(t) ==
    /\ formatter = "trace::format"
    /\ calls[t].pc = "new"
    /\ calls' = [calls EXCEPT ![t].pc = "fmt",
                              ![t].copy = last_event_was_long]
    /\ UNCHANGED <<formatter, overflow_checks, last_event_was_long,
                   not_calls_vars>>

\* trace::format: write!(writer, "{visitor}"): the Display of the visitor
\* of thread t swaps on the copy
call_write(t) ==
    /\ formatter = "trace::format"
    /\ calls[t].pc = "fmt"
    /\ \E visitor \in EventVisitors, term_width \in TermWidths :
         LET done == EventVisitor_fmt(formatter, visitor, term_width,
                                      calls[t].copy, overflow_checks)
         IN calls' = [calls EXCEPT
                        ![t] = [pc |-> IF done.panicked THEN "panicked"
                                       ELSE "store",
                                copy |-> done.flag,
                                add_blank_lines |-> done.add_blank_lines,
                                leading |-> done.leading]]
    /\ UNCHANGED <<formatter, overflow_checks, last_event_was_long,
                   not_calls_vars>>

\* trace::format: self.last_event_was_long.store(
\* visitor.last_event_was_long.load(SeqCst), SeqCst)
call_store(t) ==
    /\ formatter = "trace::format"
    /\ calls[t].pc = "store"
    /\ last_event_was_long' = calls[t].copy
    /\ calls' = [calls EXCEPT ![t].pc = "done"]
    /\ UNCHANGED <<formatter, overflow_checks, not_calls_vars>>

\* tracing_format: the Display of the visitor of thread t, up to and with
\* LAST_EVENT_WAS_LONG.swap(add_blank_lines, SeqCst), which is the one
\* statement that touches the static
call_swap(t) ==
    /\ formatter = "tracing_format"
    /\ calls[t].pc = "new"
    /\ \E visitor \in EventVisitors, term_width \in TermWidths :
         LET done == EventVisitor_fmt(formatter, visitor, term_width,
                                      last_event_was_long, overflow_checks)
         IN /\ calls' = [calls EXCEPT
                          ![t] = [pc |-> IF done.panicked THEN "panicked"
                                         ELSE "done",
                                  copy |-> FALSE,
                                  add_blank_lines |-> done.add_blank_lines,
                                  leading |-> done.leading]]
            /\ last_event_was_long' = done.flag
    /\ UNCHANGED <<formatter, overflow_checks, not_calls_vars>>

NextCalls ==
    \E t \in Threads :
        \/ call_new(t)
        \/ call_write(t)
        \/ call_store(t)
        \/ call_swap(t)

SpecCalls == InitCalls /\ [][NextCalls]_vars

\* ----------------------------------------------------- reading a tick
\* the current tick has reconciled: compute_diff returned Ok(diff)
reconciled == pc = "sleep" /\ result[1] = "Ok"

\* the unit ids occurring in a list of apartments
ids_of(list) == {list[i].unit_id : i \in DOMAIN list}

\* the unit ids of the new entries of a list of ChangedApartment
changed_ids(list) == {list[i].new.unit_id : i \in DOMAIN list}

\* the entries of a list, as a set
entries(list) == {list[i] : i \in DOMAIN list}

\* sub is seq with some entries left out, the others in the order of seq
InOrderOf(sub, seq) ==
    \E f \in [1..Len(sub) -> 1..Len(seq)] :
        /\ \A i, j \in 1..Len(sub) : i < j => f[i] < f[j]
        /\ \A i \in 1..Len(sub) : sub[i] = seq[f[i]]

\* ------------------------------------------------------------------ C1
\* C1 (as claimed): after a reconciliation every unit id of the prior map
\* or of the fetched list is in exactly one of added, removed, changed and
\* unchanged (in both, every fetched payload equal to the known one)
C1Partition ==
    reconciled =>
        LET diff == result[2]
            units == new_data[2]
            unchanged == {id \in DOMAIN prior \cap ids_of(units) :
                            \A i \in DOMAIN units :
                                units[i].unit_id = id => units[i] = prior[id]}
            classes == <<ids_of(diff.added), ids_of(diff.removed),
                         changed_ids(diff.changed), unchanged>>
        IN \A id \in DOMAIN prior \cup ids_of(units) :
               Cardinality({c \in 1..4 : id \in classes[c]}) = 1

\* ------------------------------------------------------------------ C2
\* C2 (as claimed): compute_diff run again with the same fetched list on the
\* store the first run left returns an empty diff and leaves the store as
\* it is
C2Idempotent ==
    reconciled =>
        LET again == compute_diff(known_apartments, new_data)
        IN /\ again.ret[1] = "Ok"
           /\ is_empty(again.ret[2])
           /\ again.known_apartments = known_apartments

\* ------------------------------------------------------------------ C3
\* C3: when get_apartments fails, compute_diff returns the error, the store
\* is the one the tick started with, and the tick reports no diff
C3FetchFailureKeepsStore ==
    (pc = "sleep" /\ new_data[1] = "Err") =>
        /\ result = <<"Err">>
        /\ known_apartments = prior
        /\ logged = <<"error">>

\* a fetch has failed on a store that holds apartments
C3Witness ==
    /\ pc = "sleep"
    /\ new_data[1] = "Err"
    /\ DOMAIN prior # {}

\* ------------------------------------------------------------------ C4
\* C4 (as claimed): added holds exactly the fetched entries whose unit id
\* was no key of the prior map, and no entry whose unit id was a key of it
C4Added ==
    reconciled =>
        LET diff == result[2]
            units == new_data[2]
        IN /\ entries(diff.added) =
                {u \in entries(units) : u.unit_id \notin DOMAIN prior}
           /\ \A i \in DOMAIN diff.added :
                diff.added[i].unit_id \notin DOMAIN prior

\* ------------------------------------------------------------------ C5
\* C5: removed holds exactly the units of the prior map whose unit id does
\* not occur in the fetched list, each once and as the prior map held it,
\* and none of them is a key of the new map
C5Removed ==
    reconciled =>
        LET diff == result[2]
            units == new_data[2]
            gone == DOMAIN prior \ ids_of(units)
        IN /\ ids_of(diff.removed) = gone
           /\ Len(diff.removed) = Cardinality(gone)
           /\ \A i \in DOMAIN diff.removed :
                diff.removed[i] = prior[diff.removed[i].unit_id]
           /\ gone \cap DOMAIN known_apartments = {}

\* a reconciliation has removed a unit and kept another
C5Witness ==
    /\ reconciled
    /\ Len(result[2].removed) >= 1
    /\ DOMAIN prior \cap ids_of(new_data[2]) # {}

\* ------------------------------------------------------------------ C6
\* C6 (as claimed): changed holds a pair exactly for the unit ids of both
\* the prior map and the fetched list whose payloads differ; old is the
\* known payload, new the fetched one, old # new and the ids agree; a unit
\* id of both with equal payloads has no entry in added, removed or changed
C6Changed ==
    reconciled =>
        LET diff == result[2]
            units == new_data[2]
            both == DOMAIN prior \cap ids_of(units)
            differing == {id \in both : \E i \in DOMAIN units :
                            units[i].unit_id = id /\ units[i] # prior[id]}
        IN /\ changed_ids(diff.changed) = differing
           /\ \A j \in DOMAIN diff.changed :
                LET c == diff.changed[j]
                IN /\ c.old.unit_id \in DOMAIN prior
                   /\ c.old = prior[c.old.unit_id]
                   /\ c.new \in entries(units)
                   /\ c.old # c.new
                   /\ c.old.unit_id = c.new.unit_id
           /\ \A id \in both \ differing :
                id \notin ids_of(diff.added) \cup ids_of(diff.removed)
                          \cup changed_ids(diff.changed)

\* ------------------------------------------------------------------ C7
\* C7: added and changed are in the order of the fetched list, removed is
\* in ascending order of unit id
C7Order ==
    reconciled =>
        LET diff == result[2]
            units == new_data[2]
        IN /\ InOrderOf(diff.added, units)
           /\ InOrderOf([j \in 1..Len(diff.changed) |-> diff.changed[j].new],
                        units)
           /\ \A i, j \in DOMAIN diff.removed :
                i < j => diff.removed[i].unit_id < diff.removed[j].unit_id

\* two units have changed, fetched with the larger unit id first
C7Witness ==
    /\ reconciled
    /\ Len(result[2].changed) = 2
    /\ result[2].changed[1].new.unit_id > result[2].changed[2].new.unit_id

\* ------------------------------------------------------------------ C8
\* the fetched list is the prior map, one entry per key, but for one field
\* of one unit
OneFieldOfOneUnitDiffers ==
    /\ reconciled
    /\ Len(new_data[2]) = Cardinality(DOMAIN prior)
    /\ ids_of(new_data[2]) = DOMAIN prior
    /\ \E i \in DOMAIN new_data[2] :
        LET unit == new_data[2][i]
        IN /\ Cardinality({f \in PayloadFields :
                             unit[f] # prior[unit.unit_id][f]}) = 1
           /\ \A k \in DOMAIN new_data[2] \ {i} :
                new_data[2][k] = prior[new_data[2][k].unit_id]

\* C8: when one field of one unit differs and nothing else, the diff has one
\* changed entry, that unit's, and no added and no removed entry
C8OneFieldOneChange ==
    OneFieldOfOneUnitDiffers =>
        LET diff == result[2]
        IN /\ Len(diff.changed) = 1
           /\ diff.changed[1].new \in entries(new_data[2])
           /\ diff.changed[1].old = prior[diff.changed[1].new.unit_id]
           /\ diff.changed[1].old # diff.changed[1].new
           /\ diff.added = <<>>
           /\ diff.removed = <<>>

\* only the rent of one of two known units has changed
C8Witness ==
    /\ OneFieldOfOneUnitDiffers
    /\ Cardinality(DOMAIN prior) = 2
    /\ \E i \in DOMAIN new_data[2] :
        new_data[2][i].rent # prior[new_data[2][i].unit_id].rent

\* ------------------------------------------------------------------ C9
\* the units of the scenario: A is unit 1, B is unit 2
A_4260 == [unit_id |-> 1, bedroom |-> 2, rent |-> 4260]
A_4300 == [unit_id |-> 1, bedroom |-> 2, rent |-> 4300]
B_3900 == [unit_id |-> 2, bedroom |-> 2, rent |-> 3900]

\* C9 (as claimed): from {A at 4260}, fetching [A at 4300, B at 3900] gives
\* added = [B], changed = [(A at 4260, A at 4300)], removed = [] and the
\* store {A at 4300, B at 3900}; from there, fetching [B at 3900] gives
\* removed = [A], at 4300 and with an unlisted time, added = [], changed = []
C9Scenario ==
    reconciled =>
        LET diff == result[2]
            units == new_data[2]
        IN /\ (prior = [k \in {1} |-> A_4260] /\ units = <<A_4300, B_3900>>) =>
                /\ diff.added = <<B_3900>>
                /\ diff.changed = <<[old |-> A_4260, new |-> A_4300]>>
                /\ diff.removed = <<>>
                /\ known_apartments =
                     [k \in {1, 2} |-> IF k = 1 THEN A_4300 ELSE B_3900]
           /\ (/\ prior = [k \in {1, 2} |-> IF k = 1 THEN A_4300 ELSE B_3900]
               /\ units = <<B_3900>>) =>
                /\ Len(diff.removed) = 1
                /\ diff.removed[1].unit_id = 1
                /\ diff.removed[1].rent = 4300
                /\ "unlisted" \in DOMAIN diff.removed[1]
                /\ diff.added = <<>>
                /\ diff.changed = <<>>

\* ----------------------------------------------------------------- C10
\* the maps of the store other than the active one
unlisted_archives == DOMAIN App \ {"known_apartments"}

\* C10 (as claimed): a unit X of the prior map, first seen at T0, that the
\* list reconciled at time now does not hold is no key of the active map
\* afterwards, and the store holds an archived record of X with
\* listed = T0 and unlisted = now
C10UnlistedArchived ==
    reconciled =>
        \A X \in DOMAIN prior \ ids_of(new_data[2]) :
            /\ X \notin DOMAIN known_apartments
            /\ \E archive \in unlisted_archives :
                /\ X \in DOMAIN App[archive]
                /\ App[archive][X].listed = prior[X].listed
                /\ App[archive][X].unlisted = now

\* ----------------------------------------------------------------- C11
\* the unit ids the store holds, in the active map or in an archive
held_ids == UNION {DOMAIN App[field] : field \in DOMAIN App}

\* C11 (as claimed): a unit id of a reconciled list is held by the store,
\* and a unit id the store holds is held by it ever after
C11NeverDeleted ==
    [][/\ (pc' = "sleep" /\ result'[1] = "Ok") =>
              ids_of(new_data'[2]) \subseteq held_ids'
       /\ held_ids \subseteq held_ids']_vars

\* ----------------------------------------------------------------- C12
\* C12 (as claimed): a unit that is in the active map before and after a
\* tick carries, after the tick, the listed time it carried before it,
\* whether or not its payload has changed
C12ListedKept ==
    reconciled =>
        \A id \in DOMAIN prior \cap DOMAIN known_apartments :
            /\ "listed" \in DOMAIN prior[id]
            /\ "listed" \in DOMAIN known_apartments[id]
            /\ known_apartments[id].listed = prior[id].listed

\* ----------------------------------------------------------------- C13
\* C13: started with no ava_db.json, that is from an empty store, every
\* entry of the active map is stored under the unit id of its payload
C13KeyIsUnitId ==
    ava_db = <<"absent">> =>
        \A key \in DOMAIN known_apartments :
            known_apartments[key].unit_id = key

\* from an empty store, a failed tick has followed one that stored two units
C13Witness ==
    /\ ava_db = <<"absent">>
    /\ pc = "sleep"
    /\ new_data[1] = "Err"
    /\ Cardinality(DOMAIN known_apartments) = 2

C15Persisted ==
    reconciled => ava_db = <<"app", known_apartments>>

\* ----------------------------------------------------------------- C16
\* C16 (as claimed): a cycle goes Idle, Fetching, Reconciling, Reporting,
\* Persisting, Idle, and one whose fetch fails goes Idle, Fetching, Idle
C16PhaseOrder ==
    /\ pc = "fetch" => phases = <<"Idle", "Fetching">>
    /\ (pc = "sleep" /\ new_data[1] = "Err") =>
            phases = <<"Idle", "Fetching", "Idle">>
    /\ (pc = "sleep" /\ new_data[1] = "Ok") =>
            phases = <<"Idle", "Fetching", "Reconciling", "Reporting",
                       "Persisting", "Idle">>

\* ----------------------------------------------------------------- C17
\* C17: a tick, failed or not, is followed by the sleep of the loop, its
\* error logged at error level, and the sleep by the next tick
C17LoopGoesOn ==
    [][/\ pc = "fetch" =>
            /\ pc' = "sleep"
            /\ result'[1] = "Err" => logged' = <<"error">>
       /\ pc = "sleep" => (pc' = "fetch" /\ running' = 1)]_vars

\* a tick has failed in a pass of the loop after the first, and the loop
\* can go on
C17Witness ==
    /\ pc = "sleep"
    /\ result = <<"Err">>
    /\ now >= 1
    /\ logged = <<"error">>

\* ----------------------------------------------------------------- C18
\* C18: main ends before any tick exactly when DATA_PATH exists and cannot
\* be read; otherwise the first tick runs against the App of the file, or
\* against the empty one when there is no file
C18Startup ==
    /\ pc = "exit" =>
            (ava_db = <<"corrupt">> /\ new_data = <<"None">> /\ running = 0)
    /\ ava_db = <<"corrupt">> => pc \in {"start", "exit"}
    /\ (pc \in {"fetch", "sleep"} /\ now = 0) =>
            prior = IF ava_db[1] = "app" THEN ava_db[2] ELSE btree_default

\* main has ended on an unreadable file
C18Witness == pc = "exit" /\ ava_db = <<"corrupt">>

\* ----------------------------------------------------------------- C19
\* C19: at most one call of App::tick is in progress, and none while the
\* loop sleeps
C19OneTickAtATime ==
    /\ running \in {0, 1}
    /\ running = 1 <=> pc = "fetch"

\* a second tick is in progress, the first having returned
C19Witness == pc = "fetch" /\ now >= 1 /\ running = 1

\* ----------------------------------------------------------------- C20
\* the signs of the lines that a call of diff has written
signs_of(written) == {written[k].sign : k \in DOMAIN written}

\* C20: diff of a text and itself, the empty text too, returns no line
\* marked "+" and no line marked "-"
C20IdenticalTexts ==
    (diff_ret[1] = "Ok" /\ diff_old = diff_new) =>
        signs_of(diff_ret[2]) \cap {"+", "-"} = {}

\* diff has returned for two identical texts of MaxLines lines, the last
\* without its newline
C20Witness ==
    /\ diff_ret[1] = "Ok"
    /\ diff_old = diff_new
    /\ Len(diff_old) = MaxLines
    /\ diff_old[MaxLines] \in Unterminated

\* ----------------------------------------------------------------- C21
\* C21: when diff_header returns an error, Display for ChangedApartment
\* writes the Debug of that error where the diff would be and returns Ok,
\* unless the formatter it writes to fails
C21DisplayFallsBack ==
    (diff_ret[1] = "Err" /\ fmt_ret # <<"None">>) =>
        \/ fmt_ret = <<"Ok", <<"debug", diff_ret[2]>>>>
        \/ fmt_ret = <<"Err", "f">>

\* the Display has written the error of a failed diff_header
C21Witness ==
    /\ diff_ret[1] = "Err"
    /\ fmt_ret = <<"Ok", <<"debug", "fmt::Error">>>>

\* ----------------------------------------------------------------- C22
\* days, hours and mins of m whole minutes, as C22 defines them
C22Components(m) ==
    <<component(m \div 1440, "days"),
      component((m % 1440) \div 60, "hrs"),
      component(m % 60, "mins")>>

\* the components of m that C22 has printed: those that are not zero or
\* come after one that is not
C22Printed(m) ==
    LET comps == C22Components(m)
        first == {j \in 1..3 : comps[j].n # 0}
    IN IF first = {} THEN <<>>
       ELSE LET from == CHOOSE j \in first : \A k \in first : j <= k
            IN SubSeq(comps, from, 3)

\* a sequence of components with one space between every two
RECURSIVE C22Spaced(_)
C22Spaced(comps) ==
    IF Len(comps) <= 1 THEN comps
    ELSE <<Head(comps), space>> \o C22Spaced(Tail(comps))

\* the sum, in minutes, of the components written
RECURSIVE C22Minutes(_)
C22Minutes(written) ==
    IF written = <<>> THEN 0
    ELSE C22Minutes(Tail(written))
         + Head(written).n * (IF Head(written).unit = "days" THEN 1440
                              ELSE IF Head(written).unit = "hrs" THEN 60
                              ELSE IF Head(written).unit = "mins" THEN 1
                              ELSE 0)

\* C22: a PrettyDuration of m >= 0 minutes is written as the components of
\* C22 that are printed, in order, one space between two, and they add up
\* to m; 65 is "1 hrs 5 mins", 1474 "1 days 0 hrs 34 mins", 1440
\* "1 days 0 hrs 0 mins"
C22PrettyDuration ==
    (dur_ret[1] = "Ok" /\ dur_minutes >= 0) =>
        /\ dur_ret[2] = C22Spaced(C22Printed(dur_minutes))
        /\ C22Minutes(dur_ret[2]) = dur_minutes
        /\ dur_minutes = 65 =>
            dur_ret[2] = <<component(1, "hrs"), space, component(5, "mins")>>
        /\ dur_minutes = 1474 =>
            dur_ret[2] = <<component(1, "days"), space, component(0, "hrs"),
                           space, component(34, "mins")>>
        /\ dur_minutes = 1440 =>
            dur_ret[2] = <<component(1, "days"), space, component(0, "hrs"),
                           space, component(0, "mins")>>

\* a whole day has been written with its 0 hrs and 0 mins
C22Witness ==
    /\ dur_minutes = 1440
    /\ dur_ret[1] = "Ok"
    /\ Len(dur_ret[2]) = 5

\* ----------------------------------------------------------------- C23
\* the map that the tick under way leaves when it is over
C23PostTick == compute_diff(prior, new_data).known_apartments

\* C23: wherever the task can be suspended the store is the whole map of
\* before the tick (at the await of the fetch, and after a failed fetch) or
\* the whole map of after it, and the locals of compute_diff are alive at no
\* such point
C23AtomicReconciliation ==
    pc \in suspension_points =>
        /\ frame = <<"None">>
        /\ pc = "fetch" => known_apartments = prior
        /\ (pc = "sleep" /\ result = <<"Err">>) => known_apartments = prior
        /\ (pc = "sleep" /\ result[1] = "Ok") =>
                known_apartments = C23PostTick

\* between two passes of the loop the map is neither that of before the
\* tick nor that of after it
C23Witness ==
    /\ pc = "loop"
    /\ known_apartments # prior
    /\ known_apartments # C23PostTick
    /\ known_apartments # btree_default

\* ----------------------------------------------------------------- C24
\* the last entry of a list that has the unit id `id`
C24LastOf(list, id) ==
    LET last == CHOOSE i \in DOMAIN list :
                    /\ list[i].unit_id = id
                    /\ \A j \in DOMAIN list : list[j].unit_id = id => j <= i
    IN list[last]

\* C24: after a reconciliation the keys of the map are the unit ids of the
\* fetched list, each with the payload of its last entry in the list; the
\* map has as many keys as the list has distinct ids, and no unit of
\* diff.removed is a key
C24StoreIsSnapshot ==
    reconciled =>
        /\ DOMAIN known_apartments = ids_of(new_data[2])
        /\ \A id \in DOMAIN known_apartments :
                known_apartments[id] = C24LastOf(new_data[2], id)
        /\ Cardinality(DOMAIN known_apartments)
                = Cardinality(ids_of(new_data[2]))
        /\ ids_of(result[2].removed) \cap DOMAIN known_apartments = {}

\* a list with one unit id twice, under two payloads, has been reconciled,
\* and another unit been removed
C24Witness ==
    /\ reconciled
    /\ Len(new_data[2]) = 2
    /\ new_data[2][1].unit_id = new_data[2][2].unit_id
    /\ new_data[2][1] # new_data[2][2]
    /\ result[2].removed # <<>>

\* ----------------------------------------------------------------- C25
\* C25 (as claimed): the units that one snapshot lists for the first time
\* all get the same `listed`
C25OneStampPerSnapshot ==
    [][\A id, other \in DOMAIN tracked' \ DOMAIN tracked :
            tracked'[id].listed = tracked'[other].listed]_vars

\* ----------------------------------------------------------------- C26
\* the unit ids that the file held at the start, that the first tick has
\* removed and that the second tick fetches again
C26Reappeared ==
    IF reconciled /\ now = 1 /\ ava_db[1] = "app"
    THEN (DOMAIN ava_db[2] \ DOMAIN prior) \cap ids_of(new_data[2])
    ELSE {}

\* C26 (as claimed): a unit id that reappears is reported as added and not
\* as changed, gets a `listed` of its own, and the record archived when it
\* was removed is still held
C26Reappearance ==
    \A id \in C26Reappeared :
        /\ id \in ids_of(result[2].added)
        /\ id \notin changed_ids(result[2].changed)
        /\ "listed" \in DOMAIN known_apartments[id]
        /\ \E field \in unlisted_archives :
                /\ id \in DOMAIN App[field]
                /\ App[field][id] = ava_db[2][id]

\* the part of C26 that main.rs has: added, and not changed
C26AddedAgain ==
    \A id \in C26Reappeared :
        /\ id \in ids_of(result[2].added)
        /\ id \notin changed_ids(result[2].changed)

\* ----------------------------------------------------------------- C27
\* the calls of format_event that have returned, in order
C27Formatted == SelectSeq(formatted, LAMBDA call : ~call.panicked)

\* the event of a call wraps to more than one line
C27Long(call) == call.lines > 1

\* C27: the blank line before an event is written exactly when the event is
\* long and the event before it was not, the blank line after it exactly
\* when it is long; no two blank lines follow one another, and the flag says
\* whether the last event formatted was long
C27BlankLines ==
    LET events == C27Formatted
    IN /\ \A i \in DOMAIN events :
            /\ events[i].leading <=>
                    /\ C27Long(events[i])
                    /\ (i > 1 => ~C27Long(events[i - 1]))
            /\ events[i].add_blank_lines <=> C27Long(events[i])
       /\ \A k \in 1..(Len(writer) - 1) :
            ~(writer[k] = "blank" /\ writer[k + 1] = "blank")
       /\ last_event_was_long
            = (events # <<>> /\ C27Long(events[Len(events)]))

\* two long events have been formatted one after the other
C27Witness ==
    /\ Len(formatted) = 2
    /\ formatted[1].add_blank_lines
    /\ formatted[2].add_blank_lines
    /\ ~formatted[2].leading

\* ----------------------------------------------------------------- C28
\* C28: js_eval returns in the end: an error, or, the thread having written
\* all the code and closed the stdin of node, and node having exited, all
\* that node wrote
C28JsEvalReturns ==
    <>(/\ parent = "returned"
       /\ js_ret[1] \in {"Ok", "Err"}
       /\ js_ret[1] = "Ok" =>
            /\ code_left = 0
            /\ stdin_closed
            /\ child = "exited"
            /\ out_left = 0
            /\ stdout_pipe = 0
            /\ js_ret[2] = output)

\* js_eval has returned an output larger than the pipe: node has had to wait
\* for js_eval to read
C28Witness ==
    /\ parent = "returned"
    /\ js_ret[1] = "Ok"
    /\ js_ret[2] > PipeCapacity
    /\ child = "exited"

\* ----------------------------------------------------------------- C29
\* the orders the calls of the threads can be put in
C29Orders ==
    {order \in [Threads -> Threads] :
        \A t, u \in Threads : order[t] = order[u] => t = u}

\* the calls from the k-th of the order on, made one after the other on a
\* formatter whose flag is `flag`, decide as the threads have decided and
\* leave last_event_was_long as it is; a call that panicked leaves the flag
\* alone
RECURSIVE C29Replays(_, _, _)
C29Replays(order, k, flag) ==
    IF k > NumThreads THEN flag = last_event_was_long
    ELSE LET call == calls[order[k]]
         IN IF call.pc = "panicked" THEN C29Replays(order, k + 1, flag)
            ELSE /\ call.leading = (call.add_blank_lines /\ ~flag)
                 /\ C29Replays(order, k + 1, call.add_blank_lines)

\* every call is over
C29AllDone == \A t \in Threads : calls[t].pc \in {"done", "panicked"}

\* C29: when the calls of the threads are over, the blank line each has or
\* has not written before its message, and last_event_was_long, are those
\* of the same calls made one after the other in some order
C29Serializable ==
    C29AllDone => \E order \in C29Orders : C29Replays(order, 1, FALSE)

\* the same for the formatter of tracing_format.rs alone, whose swap is on
\* the static itself
C29SerializableStatic ==
    formatter = "tracing_format" => C29Serializable

\* ----------------------------------------------------------------- C30
\* C30: no call of format_event panics in its short-format test, and an
\* event with one field whose message is longer than the terminal is wide
\* is formatted in long format
C30ShortFormatDefined ==
    \A k \in DOMAIN formatted :
        /\ ~formatted[k].panicked
        /\ (formatted[k].fields = 1 /\ ~formatted[k].message_fits) =>
                ~formatted[k].short_format

\* the part of C30 that does not depend on the build: an event whose
\* message fits the terminal never panics
C30DefinedWhenFits ==
    \A k \in DOMAIN formatted :
        formatted[k].message_fits => ~formatted[k].panicked

====
